---- MODULE Spec2Model ----
(***************************************************************************)
(* A model of the JSONPlaceholder analytics code:                          *)
(*   data_analyzer.py  JSONPlaceholderAnalyzer (load_data, the three       *)
(*                     analyses, generate_report, export_to_csv)           *)
(*   dashboard.py      DashboardAnalyzer.load_data                         *)
(* and of the tap that produces the records:                               *)
(*   validators.py     PostValidator, CommentValidator, UserValidator      *)
(*   streams.py        the parse_response methods, ValidationStats         *)
(*                                                                         *)
(* Python values are modelled as follows.  A dict is a function whose      *)
(* DOMAIN is the set of keys present, so "key in d" is k \in DOMAIN d and  *)
(* d[k] on an absent key is the KeyError branch.  A list is a sequence.    *)
(* A text that the code measures or splits (title, body, email) is a       *)
(* sequence of one-character strings; a text that is only stored and       *)
(* passed on (username) is a string.  A float quotient a / b is the exact  *)
(* fraction in lowest terms, <<numerator, denominator>>.                   *)
(***************************************************************************)
EXTENDS Integers, Sequences, FiniteSets, TLC

VARIABLES
    cls,          \* the class of the analyzer object
    users,        \* self.users    : dict id -> user record
    posts,        \* self.posts    : list of post records
    comments,     \* self.comments : list of comment records
    input,        \* the argument of the current / last load_data call
    pc,           \* position of load_data: "idle", "reading", "returned"
    enc,          \* index of the encoding being tried (data_analyzer.py:31)
    pos,          \* number of lines of the input consumed by the current pass
    line_count,   \* local line_count of load_data (data_analyzer.py:36)
    ret,          \* return value of the last load_data call
    shown,        \* error messages shown to the user by the last load_data call
    loads,        \* number of load_data calls made on the object
    decodeErrors, \* number of UnicodeErrors raised in the current call
    fed,          \* the lines handed to the loop body by the current call
    before,       \* the collections as they were when the current call began
    given,        \* number of input lines given to the object so far
    rpc,          \* position of generate_report
    out,          \* section headers printed by generate_report
    ua,           \* result of analyze_user_activity, once called
    cp,           \* result of analyze_comment_patterns, once called
    pe,           \* result of analyze_post_engagement, once called
    xpc,          \* position of export_to_csv
    csv,          \* the metrics export_to_csv obtained for its three files
    name,         \* name of the stream a parse_response call or validator belongs to
    response,     \* response.json(): the fetched records, changed in place
    cursor,       \* number of fetched records parse_response has taken
    yielded,      \* the records parse_response has yielded
    spc,          \* position of parse_response: "running", "done", "raised"
    errors,       \* validator.errors
    verdict,      \* return value of the last validate call
    validated,    \* the records passed to validate so far
    total_records,   \* ValidationStats.total_records
    valid_records,   \* ValidationStats.valid_records
    invalid_records, \* ValidationStats.invalid_records
    error_types,     \* ValidationStats.error_types
    updates,      \* the arguments of the ValidationStats.update calls so far
    summary       \* result of the last get_summary call

exportVars == <<xpc, csv>>

tapVars == <<name, response, cursor, yielded, spc, errors, verdict,
             validated, total_records, valid_records, invalid_records,
             error_types, updates, summary>>

vars == <<cls, users, posts, comments, input, pc, enc, pos, line_count, ret,
          shown, loads, decodeErrors, fed, before, given, rpc, out, ua, cp,
          pe, exportVars, tapVars>>

loadVars == <<input, pc, enc, pos, line_count, ret, shown, loads,
              decodeErrors, fed, before, given>>

(***************************************************************************)
(* Bounds of the model.                                                    *)
(***************************************************************************)
MaxLines == 2         \* lines given to one object, over all its inputs
MaxLoads == 2         \* load_data calls on one object
MaxDecodeErrors == 1  \* UnicodeErrors raised during one load_data call

(***************************************************************************)
(* Texts.                                                                  *)
(***************************************************************************)
Body3 == <<"a", " ", "b", " ", " ", "c">>
Body5 == <<" ", "a", " ", "b", " ", "c", " ", "d", " ", "e", " ">>
TitleX == <<"t", "x">>
TitleY == <<"t", "y", "y">>
MailX == <<"x", "@", "E", ".", "o">>
TextQ == <<"s", "a", "d", "?">>

(***************************************************************************)
(* The input lines.  A line either does not parse (json.loads raises       *)
(* JSONDecodeError) or parses to the message msg.                          *)
(***************************************************************************)
UserA == [id |-> 1, username |-> "alice"]
UserB == [id |-> 1, username |-> "bob"]
UserC == [id |-> 2, username |-> "carol"]
PostX == [id |-> 1, userId |-> 1, title |-> TitleX, body |-> Body3]
PostY == [id |-> 2, userId |-> 3, title |-> TitleY, body |-> Body5]
CommentX == [id |-> 1, postId |-> 1, email |-> MailX, body |-> TextQ]
CommentNoBody == [id |-> 2, postId |-> 1, email |-> MailX]

Unparsable == [json |-> FALSE]
Parsed(m) == [json |-> TRUE, msg |-> m]
RecordLine(s, r) == Parsed([type |-> "RECORD", stream |-> s, record |-> r])

\* lines that parse and can be classified
SchemaLine == Parsed([type |-> "SCHEMA", stream |-> "users"])
OtherStreamLine == RecordLine("albums", [id |-> 1])
\* lines that parse but lack a field needed to classify them
NoTypeLine == Parsed([stream |-> "posts", record |-> PostX])
NoStreamLine == Parsed([type |-> "RECORD", record |-> PostX])
NoRecordLine == Parsed([type |-> "RECORD", stream |-> "posts"])
UserNoIdLine == RecordLine("users", [username |-> "dave"])

UserLines == {RecordLine("users", r) : r \in {UserA, UserB, UserC}}
PostLines == {RecordLine("posts", r) : r \in {PostX, PostY}}
CommentLines == {RecordLine("comments", r) : r \in {CommentX, CommentNoBody}}
IgnoredLines == {Unparsable, SchemaLine, OtherStreamLine}
UnclassifiableLines == {NoTypeLine, NoStreamLine, NoRecordLine, UserNoIdLine}
Lines == UserLines \cup PostLines \cup CommentLines \cup IgnoredLines
            \cup UnclassifiableLines

SeqsUpTo(S, n) == UNION {[1..k -> S] : k \in 0..n}

Files == SeqsUpTo(Lines, MaxLines)

Classes == {"JSONPlaceholderAnalyzer", "DashboardAnalyzer"}

\* The encodings load_data tries, in order (data_analyzer.py:29).
encodings == <<"utf-8", "utf-16", "utf-16le", "utf-16be", "latin-1">>

\* What stands between the call and the text of the input:
\*   "ok"          the text is obtained
\*   "missing"     filepath.exists() is false (data_analyzer.py:24)
\*   "unreadable"  open() raises an OSError under every encoding
\*   "undecodable" decode('utf-16') raises (dashboard.py:20)
Conditions(c) ==
    IF c = "JSONPlaceholderAnalyzer" THEN {"ok", "missing", "unreadable"}
    ELSE {"ok", "undecodable"}

(***************************************************************************)
(* The body of the line loop.                                              *)
(***************************************************************************)
Collections(u, p, c) == [users |-> u, posts |-> p, comments |-> c]

\* a slip, d.setdefault(k, v): the first value of a key stays
PutIfAbsent(d, k, v) ==
    [x \in DOMAIN d \cup {k} |-> IF x \in DOMAIN d THEN d[x] ELSE v]

\* d[k] = v
Put(d, k, v) == [x \in DOMAIN d \cup {k} |-> IF x = k THEN v ELSE d[x]]

\* json.loads(line.strip()) and the classification that follows
\* (data_analyzer.py:39-46, dashboard.py:23-30): the collections after the
\* line and the exception raised, if any.
ProcessLine(st, line) ==
    IF ~line.json THEN [st |-> st, exc |-> "JSONDecodeError"]
    ELSE LET message == line.msg IN
      IF "type" \notin DOMAIN message THEN [st |-> st, exc |-> "KeyError"]
      ELSE IF message.type # "RECORD" THEN [st |-> st, exc |-> "none"]
      ELSE IF "stream" \notin DOMAIN message THEN [st |-> st, exc |-> "KeyError"]
      ELSE IF message.stream = "users" THEN
             IF "record" \notin DOMAIN message
                  \/ "id" \notin DOMAIN message.record
             THEN [st |-> st, exc |-> "KeyError"]
             ELSE [st |-> [st EXCEPT !.users =
                              Put(@, message.record.id, message.record)],
                   exc |-> "none"]
      ELSE IF message.stream = "posts" THEN
             IF "record" \notin DOMAIN message
             THEN [st |-> st, exc |-> "KeyError"]
             ELSE [st |-> [st EXCEPT !.posts = Append(@, message.record)],
                   exc |-> "none"]
      ELSE IF message.stream = "comments" THEN
             IF "record" \notin DOMAIN message
             THEN [st |-> st, exc |-> "KeyError"]
             ELSE [st |-> [st EXCEPT !.comments = Append(@, message.record)],
                   exc |-> "none"]
      ELSE [st |-> st, exc |-> "none"]

\* a slip that leaves out the inner "except json.JSONDecodeError: continue"
OnExceptionNoSkip(c, exc) ==
    IF exc = "none" THEN "continue"
    ELSE IF c = "JSONPlaceholderAnalyzer" THEN "print"
    ELSE "abort"

\* What the handlers around the loop body do with an exception:
\* JSONPlaceholderAnalyzer catches JSONDecodeError silently and any other
\* Exception with a printed message, and continues (data_analyzer.py:50-54);
\* DashboardAnalyzer catches only JSONDecodeError inside the loop
\* (dashboard.py:31-32), anything else reaches the outer handler, which shows
\* an error and returns False (dashboard.py:38-40).
OnException(c, exc) ==
    IF exc \in {"none", "JSONDecodeError"} THEN "continue"
    ELSE IF c = "JSONPlaceholderAnalyzer" THEN "print"
    ELSE "abort"

Current == Collections(users, posts, comments)

\* The whole line loop on the lines of one pass: the collections it leaves.
RECURSIVE Ingest(_, _, _, _)
Ingest(c, st, lines, i) ==
    IF i > Len(lines) THEN st
    ELSE LET r == ProcessLine(st, lines[i])
         IN IF OnException(c, r.exc) = "abort" THEN r.st
            ELSE Ingest(c, r.st, lines, i + 1)

Empty == Collections(<<>>, <<>>, <<>>)

(***************************************************************************)
(* Helpers of the analyses.                                                *)
(***************************************************************************)
Whitespace == {" ", "\t", "\n", "\r"}

\* a slip, text.split(' '): every single space ends a piece, empty or not
RECURSIVE SplitOnSpaceFrom(_, _, _, _)
SplitOnSpaceFrom(text, i, cur, acc) ==
    IF i > Len(text) THEN Append(acc, cur)
    ELSE IF text[i] = " "
      THEN SplitOnSpaceFrom(text, i + 1, <<>>, Append(acc, cur))
    ELSE SplitOnSpaceFrom(text, i + 1, Append(cur, text[i]), acc)

SplitOnSpace(text) == SplitOnSpaceFrom(text, 1, <<>>, <<>>)

\* str.split(): the maximal runs of non-whitespace characters.  A whitespace
\* character separates the words in front of it from the words behind it;
\* the text is cut at its middle one.
RECURSIVE Split(_)
Split(text) ==
    LET at == {i \in 1..Len(text) : text[i] \in Whitespace}
    IN IF at = {} THEN (IF text = <<>> THEN <<>> ELSE <<text>>)
       ELSE LET cut == CHOOSE i \in at :
                          Cardinality({j \in at : j < i}) = Cardinality(at) \div 2
            IN Split(SubSeq(text, 1, cut - 1))
                 \o Split(SubSeq(text, cut + 1, Len(text)))

RECURSIVE GCD(_, _)
GCD(a, b) == IF b = 0 THEN a ELSE GCD(b, a % b)

\* a / b for b > 0: the quotient as a fraction in lowest terms
Quot(a, b) == LET g == GCD(a, b) IN <<a \div g, b \div g>>

\* the number 0 where the code later stores a quotient
Zero == <<0, 1>>

\* some record of the list lacks one of the keys the loop subscripts
Lacks(recs, keys) ==
    \E i \in 1..Len(recs) : \E k \in keys : k \notin DOMAIN recs[i]

Returned(v) == [err |-> "none", val |-> v]
Raised(e) == [err |-> e]

\* defaultdict(list) filled by "for comment in self.comments:
\* d[comment['postId']].append(comment)" (data_analyzer.py:91-93, 218-220)
RECURSIVE GroupByPost(_, _, _)
GroupByPost(cs, i, d) ==
    IF i > Len(cs) THEN d
    ELSE LET k == cs[i].postId
             old == IF k \in DOMAIN d THEN d[k] ELSE <<>>
         IN GroupByPost(cs, i + 1, Put(d, k, Append(old, cs[i])))

\* len(d[post_id]) on that defaultdict
CountFor(d, post_id) == IF post_id \in DOMAIN d THEN Len(d[post_id]) ELSE 0

(***************************************************************************)
(* analyze_user_activity (data_analyzer.py:69-108).                        *)
(***************************************************************************)
DefaultMetrics ==
    [post_count |-> 0, total_comments_received |-> 0,
     avg_comments_per_post |-> Zero, total_words_in_posts |-> 0,
     avg_post_length |-> Zero]

MetricsOf(m, user_id) == IF user_id \in DOMAIN m THEN m[user_id] ELSE DefaultMetrics

\* data_analyzer.py:84-88
RECURSIVE CountPosts(_, _, _)
CountPosts(ps, i, m) ==
    IF i > Len(ps) THEN m
    ELSE LET user_id == ps[i].userId
             words == Len(Split(ps[i].body))
         IN CountPosts(ps, i + 1,
               Put(m, user_id,
                   [MetricsOf(m, user_id) EXCEPT
                       !.post_count = @ + 1,
                       !.total_words_in_posts = @ + words]))

\* data_analyzer.py:96-99
RECURSIVE CountReceived(_, _, _, _)
CountReceived(ps, i, post_comments, m) ==
    IF i > Len(ps) THEN m
    ELSE LET user_id == ps[i].userId
             comments_count == CountFor(post_comments, ps[i].id)
         IN CountReceived(ps, i + 1, post_comments,
               Put(m, user_id,
                   [MetricsOf(m, user_id) EXCEPT
                       !.total_comments_received = @ + comments_count]))

\* a slip that never looks the user up
UsernameAlwaysPlaceholder(us, user_id) == "User " \o ToString(user_id)

\* self.users.get(user_id, {}).get('username', f'User {user_id}')
UsernameOf(us, user_id) ==
    IF user_id \in DOMAIN us /\ "username" \in DOMAIN us[user_id]
      THEN us[user_id].username
      ELSE "User " \o ToString(user_id)

\* data_analyzer.py:102-106
Averages(us, user_id, metrics) ==
    IF metrics.post_count > 0
      THEN [post_count |-> metrics.post_count,
            total_comments_received |-> metrics.total_comments_received,
            avg_comments_per_post |->
                Quot(metrics.total_comments_received, metrics.post_count),
            total_words_in_posts |-> metrics.total_words_in_posts,
            avg_post_length |->
                Quot(metrics.total_words_in_posts, metrics.post_count),
            username |-> UsernameOf(us, user_id)]
      ELSE metrics

\* data_analyzer.py:75-106, past the guard
UserMetricsOf(st) ==
    LET counted == CountPosts(st.posts, 1, <<>>)
        post_comments == GroupByPost(st.comments, 1, <<>>)
        received == CountReceived(st.posts, 1, post_comments, counted)
    IN [user_id \in DOMAIN received |->
            Averages(st.users, user_id, received[user_id])]

\* a slip, self.users.setdefault(user_id, {}): the lookup stores the default
UsersAfterSetdefault(us, user_ids) ==
    [k \in DOMAIN us \cup user_ids |-> IF k \in DOMAIN us THEN us[k] ELSE <<>>]

\* self.users after the lookups self.users.get(user_id, {}) of
\* data_analyzer.py:106: get stores nothing, and no analysis assigns to
\* self.users, self.posts or self.comments.
UsersAfterLookup(us, user_ids) == us

\* a slip that leaves out the guard "if not self.users: return {}"
analyze_user_activity_unguarded(st) ==
    IF Lacks(st.posts, {"userId", "body", "id"})
         \/ Lacks(st.comments, {"postId"})
      THEN Raised("KeyError")
    ELSE Returned(UserMetricsOf(st))

\* a slip that reports only the ids of ingested users
analyze_user_activity_known(st) ==
    IF DOMAIN st.users = {} THEN Returned(<<>>)
    ELSE IF Lacks(st.posts, {"userId", "body", "id"})
              \/ Lacks(st.comments, {"postId"})
      THEN Raised("KeyError")
    ELSE Returned([user_id \in DOMAIN UserMetricsOf(st) \cap DOMAIN st.users |->
                      UserMetricsOf(st)[user_id]])

analyze_user_activity(st) ==
    IF DOMAIN st.users = {} THEN Returned(<<>>)
    ELSE IF Lacks(st.posts, {"userId", "body", "id"})
              \/ Lacks(st.comments, {"postId"})
      THEN Raised("KeyError")
    ELSE Returned(UserMetricsOf(st))

(***************************************************************************)
(* analyze_comment_patterns (data_analyzer.py:110-168).                    *)
(***************************************************************************)
UpperCase == <<"A", "B", "C", "D", "E", "F", "G", "H", "I", "J", "K", "L", "M",
               "N", "O", "P", "Q", "R", "S", "T", "U", "V", "W", "X", "Y", "Z">>
LowerCase == <<"a", "b", "c", "d", "e", "f", "g", "h", "i", "j", "k", "l", "m",
               "n", "o", "p", "q", "r", "s", "t", "u", "v", "w", "x", "y", "z">>

LowerChar(c) ==
    IF \E i \in DOMAIN UpperCase : UpperCase[i] = c
      THEN LowerCase[CHOOSE i \in DOMAIN UpperCase : UpperCase[i] = c]
      ELSE c

\* str.lower()
Lower(text) == [i \in 1..Len(text) |-> LowerChar(text[i])]

\* a slip, text.split(sep)[1]: what lies between the first and the second sep
AfterFirst(text, sep) ==
    LET at == {i \in 1..Len(text) : text[i] = sep}
        first == CHOOSE i \in at : \A j \in at : i <= j
        rest == {i \in at : i > first}
    IN IF at = {} THEN text
       ELSE SubSeq(text, first + 1,
                   IF rest = {} THEN Len(text)
                   ELSE (CHOOSE i \in rest : \A j \in rest : i <= j) - 1)

\* text.split(sep)[-1]: what follows the last sep, all of text without one
AfterLast(text, sep) ==
    LET at == {i \in 1..Len(text) : text[i] = sep}
    IN IF at = {} THEN text
       ELSE SubSeq(text, (CHOOSE i \in at : \A j \in at : j <= i) + 1, Len(text))

\* a slip, "word in text.split()": word is one of the words of the text
ContainsWord(text, word) ==
    \E i \in 1..Len(Split(text)) : Split(text)[i] = word

\* "word in text" on strings: word occurs as a substring
Contains(text, word) ==
    \E i \in 1..(Len(text) - Len(word) + 1) :
        SubSeq(text, i, i + Len(word) - 1) = word

\* A Counter: the <<key, count>> pairs in the order the keys were first seen.
Incr(counter, key) ==
    IF \E i \in 1..Len(counter) : counter[i][1] = key
      THEN [i \in 1..Len(counter) |->
               IF counter[i][1] = key THEN <<key, counter[i][2] + 1>>
               ELSE counter[i]]
      ELSE Append(counter, <<key, 1>>)

\* Counter.update(keys)
RECURSIVE IncrAll(_, _, _)
IncrAll(counter, keys, i) ==
    IF i > Len(keys) THEN counter
    ELSE IncrAll(Incr(counter, keys[i]), keys, i + 1)

\* a slip that puts x in front of the pairs whose count equals its own
InsertDescUnstable(sorted, x) ==
    LET n == Cardinality({j \in 1..Len(sorted) : sorted[j][2] > x[2]})
    IN SubSeq(sorted, 1, n) \o <<x>> \o SubSeq(sorted, n + 1, Len(sorted))

\* One step of a stable sort by descending count: x goes behind every pair
\* whose count is at least its own.
InsertDesc(sorted, x) ==
    LET n == Cardinality({j \in 1..Len(sorted) : sorted[j][2] >= x[2]})
    IN SubSeq(sorted, 1, n) \o <<x>> \o SubSeq(sorted, n + 1, Len(sorted))

\* sorted(pairs, key=count, reverse=True): stable, descending
RECURSIVE SortDesc(_, _, _)
SortDesc(pairs, i, sorted) ==
    IF i > Len(pairs) THEN sorted
    ELSE SortDesc(pairs, i + 1, InsertDesc(sorted, pairs[i]))

Take(xs, n) == SubSeq(xs, 1, IF Len(xs) < n THEN Len(xs) ELSE n)

TopDomains == 5
TopWords == 10

\* Counter.most_common(n)
most_common(counter, n) == Take(SortDesc(counter, 1, <<>>), n)

simple_sentiment_pos ==
    {<<"g", "o", "o", "d">>, <<"g", "r", "e", "a", "t">>,
     <<"a", "w", "e", "s", "o", "m", "e">>,
     <<"e", "x", "c", "e", "l", "l", "e", "n", "t">>,
     <<"h", "a", "p", "p", "y">>, <<"t", "h", "a", "n", "k", "s">>}
simple_sentiment_neg ==
    {<<"b", "a", "d">>, <<"p", "o", "o", "r">>,
     <<"t", "e", "r", "r", "i", "b", "l", "e">>, <<"a", "w", "f", "u", "l">>,
     <<"s", "a", "d">>, <<"w", "r", "o", "n", "g">>}

EmptyCommentMetrics ==
    [total_comments |-> 0,
     avg_comment_length |-> Zero,
     common_email_domains |-> <<>>,
     sentiment_indicators |->
         [positive_words |-> 0, negative_words |-> 0, question_comments |-> 0],
     most_common_words |-> <<>>]

\* data_analyzer.py:143-161, one comment
ScanComment(acc, comment) ==
    LET comment_lower == Lower(comment.body)
    IN [total_length |-> acc.total_length + Len(comment.body),
        domains |-> Incr(acc.domains, AfterLast(Lower(comment.email), "@")),
        word_frequency |-> IncrAll(acc.word_frequency, Split(comment_lower), 1),
        positive_words |-> acc.positive_words
            + Cardinality({w \in simple_sentiment_pos : Contains(comment_lower, w)}),
        negative_words |-> acc.negative_words
            + Cardinality({w \in simple_sentiment_neg : Contains(comment_lower, w)}),
        question_comments |-> acc.question_comments
            + (IF Contains(comment.body, <<"?">>) THEN 1 ELSE 0)]

RECURSIVE ScanComments(_, _, _)
ScanComments(cs, i, acc) ==
    IF i > Len(cs) THEN acc
    ELSE ScanComments(cs, i + 1, ScanComment(acc, cs[i]))

\* data_analyzer.py:126-168, past the guard
CommentMetricsOf(st) ==
    LET acc == ScanComments(st.comments, 1,
                   [total_length |-> 0, domains |-> <<>>,
                    word_frequency |-> <<>>, positive_words |-> 0,
                    negative_words |-> 0, question_comments |-> 0])
    IN [total_comments |-> Len(st.comments),
        avg_comment_length |-> Quot(acc.total_length, Len(st.comments)),
        common_email_domains |-> most_common(acc.domains, TopDomains),
        comments_by_hour |-> <<>>,
        word_frequency |-> acc.word_frequency,
        sentiment_indicators |->
            [positive_words |-> acc.positive_words,
             negative_words |-> acc.negative_words,
             question_comments |-> acc.question_comments],
        most_common_words |-> most_common(acc.word_frequency, TopWords)]

\* a slip that divides by len(self.comments) with neither guard
analyze_comment_patterns_unguarded(st) ==
    IF st.comments = <<>> THEN Raised("ZeroDivisionError")
    ELSE IF Lacks(st.comments, {"body", "email"}) THEN Raised("KeyError")
    ELSE Returned(CommentMetricsOf(st))

analyze_comment_patterns(st) ==
    IF st.comments = <<>> THEN Returned(EmptyCommentMetrics)
    ELSE IF Lacks(st.comments, {"body", "email"}) THEN Raised("KeyError")
    ELSE Returned(CommentMetricsOf(st))

(***************************************************************************)
(* analyze_post_engagement (data_analyzer.py:170-239).                     *)
(***************************************************************************)
ShortLimit == 100
MediumLimit == 200
TopPosts == 5

EmptyPostMetrics ==
    [total_posts |-> 0,
     posts_by_length |-> [short |-> 0, medium |-> 0, long |-> 0],
     title_length_stats |-> [min |-> Zero, max |-> Zero, avg |-> Zero,
                             median |-> Zero],
     most_engaging_posts |-> <<>>,
     engagement_by_user |-> <<>>]

\* a slip that compares with <= at both limits
BucketInclusive(words) ==
    IF words <= ShortLimit THEN "short"
    ELSE IF words <= MediumLimit THEN "medium"
    ELSE "long"

\* data_analyzer.py:196-202
Bucket(words) ==
    IF words < ShortLimit THEN "short"
    ELSE IF words < MediumLimit THEN "medium"
    ELSE "long"

RECURSIVE BucketPosts(_, _, _)
BucketPosts(ps, i, by_length) ==
    IF i > Len(ps) THEN by_length
    ELSE BucketPosts(ps, i + 1,
            [by_length EXCEPT ![Bucket(Len(Split(ps[i].body)))] = @ + 1])

RECURSIVE SumSeq(_, _)
SumSeq(xs, i) == IF i > Len(xs) THEN 0 ELSE xs[i] + SumSeq(xs, i + 1)

\* sorted(xs), ascending
RECURSIVE SortAsc(_, _, _)
SortAsc(xs, i, sorted) ==
    IF i > Len(xs) THEN sorted
    ELSE LET n == Cardinality({j \in 1..Len(sorted) : sorted[j] <= xs[i]})
         IN SortAsc(xs, i + 1,
                    SubSeq(sorted, 1, n) \o <<xs[i]>>
                        \o SubSeq(sorted, n + 1, Len(sorted)))

\* statistics.median of a non-empty list
Median(xs) ==
    LET s == SortAsc(xs, 1, <<>>)
        n == Len(s)
    IN IF n % 2 = 1 THEN Quot(s[(n + 1) \div 2], 1)
       ELSE Quot(s[n \div 2] + s[n \div 2 + 1], 2)

\* data_analyzer.py:206-212
TitleStats(title_lengths) ==
    LET vals == {title_lengths[i] : i \in 1..Len(title_lengths)}
    IN [min |-> Quot(CHOOSE v \in vals : \A w \in vals : v <= w, 1),
        max |-> Quot(CHOOSE v \in vals : \A w \in vals : w <= v, 1),
        avg |-> Quot(SumSeq(title_lengths, 1), Len(title_lengths)),
        median |-> Median(title_lengths)]

\* data_analyzer.py:225-230
EngagementEntry(post, post_engagement) ==
    [post_id |-> post.id, title |-> post.title, user_id |-> post.userId,
     comment_count |-> CountFor(post_engagement, post.id)]

\* a slip, engagement_by_user[userId] = engagement: the last post counts
RECURSIVE EngagementByUserLast(_, _, _, _)
EngagementByUserLast(ps, i, post_engagement, by_user) ==
    IF i > Len(ps) THEN by_user
    ELSE EngagementByUserLast(ps, i + 1, post_engagement,
            Put(by_user, ps[i].userId, CountFor(post_engagement, ps[i].id)))

\* defaultdict(int): engagement_by_user[userId] += engagement
RECURSIVE EngagementByUser(_, _, _, _)
EngagementByUser(ps, i, post_engagement, by_user) ==
    IF i > Len(ps) THEN by_user
    ELSE LET u == ps[i].userId
             old == IF u \in DOMAIN by_user THEN by_user[u] ELSE 0
         IN EngagementByUser(ps, i + 1, post_engagement,
               Put(by_user, u, old + CountFor(post_engagement, ps[i].id)))

\* sorted(post_engagement_metrics, key=comment_count, reverse=True)[:5]
\* (data_analyzer.py:233-237)
MostEngaging(entries) ==
    LET pairs == [i \in 1..Len(entries) |-> <<entries[i], entries[i].comment_count>>]
        ranked == Take(SortDesc(pairs, 1, <<>>), TopPosts)
    IN [i \in 1..Len(ranked) |-> ranked[i][1]]

\* data_analyzer.py:182-239, past the guard
PostMetricsOf(st) ==
    LET ps == st.posts
        title_lengths == [i \in 1..Len(ps) |-> Len(ps[i].title)]
        post_engagement == GroupByPost(st.comments, 1, <<>>)
        entries == [i \in 1..Len(ps) |-> EngagementEntry(ps[i], post_engagement)]
    IN [total_posts |-> Len(ps),
        posts_by_length |->
            BucketPosts(ps, 1, [short |-> 0, medium |-> 0, long |-> 0]),
        title_length_stats |-> TitleStats(title_lengths),
        most_engaging_posts |-> MostEngaging(entries),
        engagement_by_user |-> EngagementByUser(ps, 1, post_engagement, <<>>)]

analyze_post_engagement(st) ==
    IF st.posts = <<>> THEN Returned(EmptyPostMetrics)
    ELSE IF Lacks(st.posts, {"body", "title", "id", "userId"})
              \/ Lacks(st.comments, {"postId"})
      THEN Raised("KeyError")
    ELSE Returned(PostMetricsOf(st))

NoResult == [err |-> "uncalled"]

\* export_to_csv has not been called
ExportIdle ==
    /\ xpc = "idle"
    /\ csv = [user_metrics |-> NoResult, post_metrics |-> NoResult,
              comment_metrics |-> NoResult]

\* a stream with nothing fetched, its validator and a ValidationStats
\* object, as constructed
TapFresh ==
    /\ response = <<>>
    /\ cursor = 0
    /\ yielded = <<>>
    /\ spc = "done"
    /\ errors = <<>>
    /\ verdict = "None"
    /\ validated = <<>>
    /\ total_records = 0
    /\ valid_records = 0
    /\ invalid_records = 0
    /\ error_types = <<>>
    /\ updates = <<>>
    /\ summary = NoResult

\* no stream, validator or ValidationStats object is in use
TapIdle == name = "users" /\ TapFresh

(***************************************************************************)
(* load_data.                                                              *)
(***************************************************************************)
Init ==
    /\ cls \in Classes
    /\ users = <<>>
    /\ posts = <<>>
    /\ comments = <<>>
    /\ input = [lines |-> <<>>, cond |-> "ok"]
    /\ pc = "idle"
    /\ enc = 1
    /\ pos = 0
    /\ line_count = 0
    /\ ret = "None"
    /\ shown = {}
    /\ loads = 0
    /\ decodeErrors = 0
    /\ fed = <<>>
    /\ before = Empty
    /\ given = 0
    /\ rpc = "idle"
    /\ out = <<>>
    /\ ua = NoResult
    /\ cp = NoResult
    /\ pe = NoResult
    /\ ExportIdle
    /\ TapIdle

\* The call, up to the first pass over the text: the existence check of
\* data_analyzer.py:24-26, the decode of dashboard.py:20.
LoadData ==
    /\ pc \in {"idle", "returned"}
    /\ rpc = "idle"
    /\ loads < MaxLoads
    /\ \E f \in Files, cond \in Conditions(cls) :
          /\ cond # "ok" => f = <<>>
          /\ given + Len(f) <= MaxLines
          /\ given' = given + Len(f)
          /\ input' = [lines |-> f, cond |-> cond]
          /\ IF cond = "missing"
                THEN pc' = "returned" /\ ret' = "False"
                     /\ shown' = {"File not found"}
                ELSE IF cond = "undecodable"
                THEN pc' = "returned" /\ ret' = "False"
                     /\ shown' = {"Error reading file"}
                ELSE pc' = "reading" /\ ret' = "None" /\ shown' = {}
    /\ loads' = loads + 1
    /\ enc' = 1
    /\ pos' = 0
    /\ line_count' = 0
    /\ decodeErrors' = 0
    /\ fed' = <<>>
    /\ before' = Current
    /\ UNCHANGED <<cls, users, posts, comments, rpc, out, ua, cp, pe>>
    /\ UNCHANGED <<exportVars, tapVars>>

\* open() raises under the encoding being tried: the handler of
\* data_analyzer.py:62-64 prints and the loop goes on to the next encoding;
\* past the last one the call fails (data_analyzer.py:66-67).
OpenError ==
    /\ pc = "reading"
    /\ input.cond = "unreadable"
    /\ IF enc < Len(encodings)
         THEN /\ enc' = enc + 1
              /\ shown' = shown \cup {"Error with encoding"}
              /\ UNCHANGED <<pc, ret>>
         ELSE /\ pc' = "returned"
              /\ ret' = "False"
              /\ shown' = shown \cup {"Error with encoding",
                                      "Failed to read file with any encoding"}
              /\ UNCHANGED enc
    /\ UNCHANGED <<cls, users, posts, comments, input, pos, line_count, loads,
                   decodeErrors, fed, before, given, rpc, out, ua, cp, pe>>
    /\ UNCHANGED <<exportVars, tapVars>>

\* One iteration of the line loop (data_analyzer.py:37-54,
\* dashboard.py:21-32).
ReadLine ==
    /\ pc = "reading"
    /\ input.cond = "ok"
    /\ pos < Len(input.lines)
    /\ LET line == input.lines[pos + 1]
           r == ProcessLine(Current, line)
           h == OnException(cls, r.exc)
       IN /\ users' = r.st.users
          /\ posts' = r.st.posts
          /\ comments' = r.st.comments
          /\ fed' = Append(fed, line)
          /\ pos' = pos + 1
          /\ line_count' = IF cls = "JSONPlaceholderAnalyzer" /\ r.exc = "none"
                             THEN line_count + 1 ELSE line_count
          /\ shown' = IF h = "print"
                         THEN shown \cup {"Other error while parsing"}
                       ELSE IF h = "abort"
                         THEN shown \cup {"Error reading file"}
                       ELSE shown
          /\ IF h = "abort"
               THEN pc' = "returned" /\ ret' = "False"
               ELSE UNCHANGED <<pc, ret>>
    /\ UNCHANGED <<cls, input, enc, loads, decodeErrors, before, given, rpc,
                   out, ua, cp, pe>>
    /\ UNCHANGED <<exportVars, tapVars>>

\* The text wrapper raises a UnicodeError while the next line is read: the
\* handler of data_analyzer.py:60-61 goes on to the next encoding, which
\* reads the file from its start.  latin-1, the last encoding, decodes every
\* byte, so the error is raised only under the encodings before it.
DecodeError ==
    /\ cls = "JSONPlaceholderAnalyzer"
    /\ pc = "reading"
    /\ input.cond = "ok"
    /\ pos < Len(input.lines)
    /\ enc < Len(encodings)
    /\ decodeErrors < MaxDecodeErrors
    /\ enc' = enc + 1
    /\ pos' = 0
    /\ line_count' = 0
    /\ decodeErrors' = decodeErrors + 1
    /\ UNCHANGED <<cls, users, posts, comments, input, pc, ret, shown, loads,
                   fed, before, given, rpc, out, ua, cp, pe>>
    /\ UNCHANGED <<exportVars, tapVars>>

\* The loop ends: data_analyzer.py:56-58, dashboard.py:35-36.
EndOfFile ==
    /\ pc = "reading"
    /\ input.cond = "ok"
    /\ pos = Len(input.lines)
    /\ pc' = "returned"
    /\ ret' = "True"
    /\ UNCHANGED <<cls, users, posts, comments, input, enc, pos, line_count,
                   shown, loads, decodeErrors, fed, before, given, rpc, out,
                   ua, cp, pe>>
    /\ UNCHANGED <<exportVars, tapVars>>

(***************************************************************************)
(* generate_report (data_analyzer.py:241-283).  No call of an analysis is  *)
(* inside a try block, so an exception of an analysis leaves the method.   *)
(***************************************************************************)
\* data_analyzer.py:243-255
ReportUserActivity ==
    /\ cls = "JSONPlaceholderAnalyzer"
    /\ pc = "returned"
    /\ rpc = "idle"
    /\ LET user_activity == analyze_user_activity(Current)
       IN /\ ua' = user_activity
          /\ users' = IF user_activity.err = "none"
                        THEN UsersAfterLookup(users, DOMAIN user_activity.val)
                        ELSE users
          /\ IF user_activity.err # "none"
               THEN rpc' = "raised" /\ out' = <<>>
               ELSE /\ rpc' = "comments"
                    /\ out' = IF DOMAIN user_activity.val # {}
                                THEN <<"User Activity Insights">> ELSE <<>>
    /\ UNCHANGED <<cls, posts, comments, cp, pe>>
    /\ UNCHANGED loadVars
    /\ UNCHANGED <<exportVars, tapVars>>

\* data_analyzer.py:257-270
ReportCommentPatterns ==
    /\ rpc = "comments"
    /\ LET comment_metrics == analyze_comment_patterns(Current)
       IN /\ cp' = comment_metrics
          /\ IF comment_metrics.err # "none"
               THEN rpc' = "raised" /\ UNCHANGED out
               ELSE rpc' = "posts" /\ out' = Append(out, "Comment Patterns")
    /\ UNCHANGED <<cls, users, posts, comments, ua, pe>>
    /\ UNCHANGED loadVars
    /\ UNCHANGED <<exportVars, tapVars>>

\* data_analyzer.py:272-283
ReportPostEngagement ==
    /\ rpc = "posts"
    /\ LET post_metrics == analyze_post_engagement(Current)
       IN /\ pe' = post_metrics
          /\ IF post_metrics.err # "none"
               THEN rpc' = "raised" /\ UNCHANGED out
               ELSE /\ rpc' = "done"
                    /\ out' = IF post_metrics.val.total_posts > 0
                                THEN Append(out, "Post Engagement Insights")
                                ELSE out
    /\ UNCHANGED <<cls, users, posts, comments, ua, cp>>
    /\ UNCHANGED loadVars
    /\ UNCHANGED <<exportVars, tapVars>>

Next ==
    \/ LoadData
    \/ OpenError
    \/ ReadLine
    \/ DecodeError
    \/ EndOfFile
    \/ ReportUserActivity
    \/ ReportCommentPatterns
    \/ ReportPostEngagement

Spec == Init /\ [][Next]_vars

(***************************************************************************)
(* The analyses as functions of the ingested state.  The initial states    *)
(* are those a JSONPlaceholderAnalyzer is in after load_data has read a    *)
(* file of well-formed RECORD lines; the actions call the analyses.        *)
(***************************************************************************)
MaxPosts == 3      \* posts in the ingested state
MaxComments == 2   \* comments in the ingested state

PostZ == [id |-> 2, userId |-> 1, title |-> TitleY, body |-> Body5]
PostW == [id |-> 1, userId |-> 3, title |-> TitleX, body |-> Body3]
CommentY == [id |-> 3, postId |-> 2, email |-> MailX, body |-> TextQ]
CommentZ == [id |-> 4, postId |-> 5, email |-> MailX, body |-> TextQ]

MetricUsers == <<UserA, UserC>>
MetricPosts == {PostX, PostY, PostZ, PostW}
MetricComments == {CommentX, CommentY, CommentZ}

LinesOf(stream, records) ==
    [i \in 1..Len(records) |-> RecordLine(stream, records[i])]

\* the state after a first load_data call that read the file f to its end
LoadedFrom(f) ==
    LET st == Ingest("JSONPlaceholderAnalyzer", Empty, f, 1)
    IN /\ cls = "JSONPlaceholderAnalyzer"
       /\ users = st.users
       /\ posts = st.posts
       /\ comments = st.comments
       /\ input = [lines |-> f, cond |-> "ok"]
       /\ pc = "returned"
       /\ enc = 1
       /\ pos = Len(f)
       /\ line_count = Len(f)
       /\ ret = "True"
       /\ shown = {}
       /\ loads = 1
       /\ decodeErrors = 0
       /\ fed = f
       /\ before = Empty
       /\ given = Len(f)
       /\ rpc = "idle"
       /\ out = <<>>
       /\ ua = NoResult
       /\ cp = NoResult
       /\ pe = NoResult
       /\ ExportIdle
       /\ TapIdle

InitMetrics ==
    \E ids \in SUBSET (1..Len(MetricUsers)),
       ps \in SeqsUpTo(MetricPosts, MaxPosts),
       cs \in SeqsUpTo(MetricComments, MaxComments) :
        LoadedFrom(LinesOf("users",
                           SelectSeq(MetricUsers, LAMBDA u : u.id \in ids))
                     \o LinesOf("posts", ps) \o LinesOf("comments", cs))

CallUserActivity ==
    /\ ua = NoResult
    /\ LET user_activity == analyze_user_activity(Current)
       IN /\ ua' = user_activity
          /\ users' = IF user_activity.err = "none"
                        THEN UsersAfterLookup(users, DOMAIN user_activity.val)
                        ELSE users
    /\ UNCHANGED <<cls, posts, comments, rpc, out, cp, pe>>
    /\ UNCHANGED loadVars
    /\ UNCHANGED <<exportVars, tapVars>>

CallCommentPatterns ==
    /\ cp = NoResult
    /\ cp' = analyze_comment_patterns(Current)
    /\ UNCHANGED <<cls, users, posts, comments, rpc, out, ua, pe>>
    /\ UNCHANGED loadVars
    /\ UNCHANGED <<exportVars, tapVars>>

CallPostEngagement ==
    /\ pe = NoResult
    /\ pe' = analyze_post_engagement(Current)
    /\ UNCHANGED <<cls, users, posts, comments, rpc, out, ua, cp>>
    /\ UNCHANGED loadVars
    /\ UNCHANGED <<exportVars, tapVars>>

NextMetrics ==
    \/ CallUserActivity
    \/ CallCommentPatterns
    \/ CallPostEngagement

SpecMetrics == InitMetrics /\ [][NextMetrics]_vars

(***************************************************************************)
(* The ranking of analyze_post_engagement on states with more posts than   *)
(* the ranking keeps.                                                      *)
(***************************************************************************)
MaxRanked == 6    \* posts in the ingested state
MaxPerPost == 2   \* comments on one post id

PostV == [id |-> 3, userId |-> 2, title |-> TitleX, body |-> Body3]
CommentV == [id |-> 5, postId |-> 3, email |-> MailX, body |-> TextQ]

RankedPosts == {PostX, PostZ, PostV}

Repeat(x, n) == [i \in 1..n |-> x]

InitRanking ==
    \E ps \in SeqsUpTo(RankedPosts, MaxRanked),
       n1 \in 0..MaxPerPost, n2 \in 0..MaxPerPost, n3 \in 0..MaxPerPost :
        LoadedFrom(LinesOf("users", <<UserA>>) \o LinesOf("posts", ps)
                     \o LinesOf("comments",
                                Repeat(CommentX, n1) \o Repeat(CommentY, n2)
                                    \o Repeat(CommentV, n3)))

NextRanking == CallPostEngagement

SpecRanking == InitRanking /\ [][NextRanking]_vars

(***************************************************************************)
(* analyze_comment_patterns on states with more email domains and words    *)
(* than the result keeps.  The ingested comments are a few arbitrary       *)
(* comments, then possibly the sample, then a few arbitrary comments.      *)
(***************************************************************************)
MaxHead == 1    \* arbitrary comments in front of the sample
MaxTail == 1    \* arbitrary comments behind the sample

TextThanks == <<"T", "h", "i", "s", " ", "i", "s", " ", "s", "a", "d", " ",
                "b", "u", "t", " ", "t", "h", "a", "n", "k", "s", "!">>
TextGood == <<"g", "o", "o", "d", " ", "b", "a", "d", " ", "g", "o", "o",
              "d">>
TextUnhappy == <<"U", "n", "h", "a", "p", "p", "y", " ", "G", "R", "E",
                 "A", "T">>
TextCount == <<"o", "n", "e", " ", "t", "w", "o", " ", " ", "t", "h", "r",
               "e", "e", "\t", "f", "o", "u", "r">>
TextPoor == <<"p", "o", "o", "r", " ", "P", "o", "o", "r", " ", "a", "w",
              "f", "u", "l">>
MailUpper == <<"u", "@", "A">>
MailLower == <<"v", "@", "a">>
MailTwoAts == <<"w", "@", "x", "@", "b">>
MailNoAt == <<"c">>
MailD == <<"u", "@", "d">>
MailE == <<"u", "@", "e">>
MailF == <<"u", "@", "f">>

CommentThanks == [id |-> 11, postId |-> 1, email |-> MailUpper, body |-> TextThanks]
CommentAsk == [id |-> 12, postId |-> 1, email |-> MailLower, body |-> TextQ]
CommentGood == [id |-> 13, postId |-> 1, email |-> MailTwoAts, body |-> TextGood]
CommentUnhappy == [id |-> 14, postId |-> 1, email |-> MailNoAt, body |-> TextUnhappy]
CommentCount == [id |-> 15, postId |-> 1, email |-> MailD, body |-> TextCount]
CommentBlank == [id |-> 16, postId |-> 1, email |-> MailE, body |-> <<>>]
CommentPoor == [id |-> 17, postId |-> 1, email |-> MailF, body |-> TextPoor]

\* six email domains and fourteen words
SampleComments == <<CommentThanks, CommentAsk, CommentGood, CommentUnhappy,
                    CommentCount, CommentBlank, CommentPoor>>

ScannedComments == {SampleComments[i] : i \in 1..Len(SampleComments)}

InitComments ==
    \E head \in SeqsUpTo(ScannedComments, MaxHead),
       mid \in {<<>>, SampleComments},
       tail \in SeqsUpTo(ScannedComments, MaxTail) :
        LoadedFrom(LinesOf("users", <<UserA>>)
                     \o LinesOf("comments", head \o mid \o tail))

NextComments == CallCommentPatterns

SpecComments == InitComments /\ [][NextComments]_vars

(***************************************************************************)
(* The length buckets of analyze_post_engagement on posts whose bodies     *)
(* have word counts at and next to the two limits.                         *)
(***************************************************************************)
MaxMeasured == 3   \* posts in the ingested state

\* a body of n words, each followed by one space
BodyOfWords(n) == [i \in 1..(2 * n) |-> IF i % 2 = 1 THEN "w" ELSE " "]

PostOfWords(n) == [id |-> n, userId |-> 1, title |-> TitleX, body |-> BodyOfWords(n)]

MeasuredPosts == {PostOfWords(n) : n \in {0, 99, 100, 199, 200}}

InitLengths ==
    \E ps \in SeqsUpTo(MeasuredPosts, MaxMeasured) :
        LoadedFrom(LinesOf("users", <<UserA>>) \o LinesOf("posts", ps))

NextLengths == CallPostEngagement

SpecLengths == InitLengths /\ [][NextLengths]_vars

(***************************************************************************)
(* main (data_analyzer.py:361-368) after a successful load_data:           *)
(* generate_report, then export_to_csv (data_analyzer.py:285-359), which   *)
(* calls the analyses again, in another order.  A caller may also invoke   *)
(* an analysis directly, at any moment.                                    *)
(***************************************************************************)
MaxMainPosts == 2      \* posts in the ingested state
MaxMainComments == 2   \* comments in the ingested state

InitMain ==
    \E ids \in SUBSET (1..Len(MetricUsers)),
       ps \in SeqsUpTo(MetricPosts, MaxMainPosts),
       cs \in SeqsUpTo(MetricComments, MaxMainComments) :
        LoadedFrom(LinesOf("users",
                           SelectSeq(MetricUsers, LAMBDA u : u.id \in ids))
                     \o LinesOf("posts", ps) \o LinesOf("comments", cs))

\* data_analyzer.py:293-309
ExportUserMetrics ==
    /\ rpc = "done"
    /\ xpc = "idle"
    /\ LET user_activity == analyze_user_activity(Current)
       IN /\ csv' = [csv EXCEPT !.user_metrics = user_activity]
          /\ users' = IF user_activity.err = "none"
                        THEN UsersAfterLookup(users, DOMAIN user_activity.val)
                        ELSE users
          /\ xpc' = IF user_activity.err # "none" THEN "raised" ELSE "posts"
    /\ UNCHANGED <<cls, posts, comments, rpc, out, ua, cp, pe>>
    /\ UNCHANGED <<loadVars, tapVars>>

\* data_analyzer.py:311-332
ExportPostMetrics ==
    /\ xpc = "posts"
    /\ LET post_metrics == analyze_post_engagement(Current)
       IN /\ csv' = [csv EXCEPT !.post_metrics = post_metrics]
          /\ xpc' = IF post_metrics.err # "none" THEN "raised" ELSE "comments"
    /\ UNCHANGED <<cls, users, posts, comments, rpc, out, ua, cp, pe>>
    /\ UNCHANGED <<loadVars, tapVars>>

\* data_analyzer.py:334-354
ExportCommentMetrics ==
    /\ xpc = "comments"
    /\ LET comment_metrics == analyze_comment_patterns(Current)
       IN /\ csv' = [csv EXCEPT !.comment_metrics = comment_metrics]
          /\ xpc' = IF comment_metrics.err # "none" THEN "raised" ELSE "done"
    /\ UNCHANGED <<cls, users, posts, comments, rpc, out, ua, cp, pe>>
    /\ UNCHANGED <<loadVars, tapVars>>

NextMain ==
    \/ ReportUserActivity
    \/ ReportCommentPatterns
    \/ ReportPostEngagement
    \/ ExportUserMetrics
    \/ ExportPostMetrics
    \/ ExportCommentMetrics
    \/ CallUserActivity
    \/ CallCommentPatterns
    \/ CallPostEngagement

SpecMain == InitMain /\ [][NextMain]_vars

(***************************************************************************)
(* The validators (validators.py).  A fetched record is a dict of JSON     *)
(* values: a value is null, an integer or a string, a string being a       *)
(* sequence of one-character strings.  The fields the validators strip or  *)
(* match (title, body, name, username, email) hold strings or null or are  *)
(* absent; the integer fields may also hold a string.                      *)
(***************************************************************************)
Null == [t |-> "null"]
Num(n) == [t |-> "int", n |-> n]
Str(s) == [t |-> "str", s |-> s]

Digits == {"0", "1", "2", "3", "4", "5", "6", "7", "8", "9"}
Letters == {LowerCase[i] : i \in DOMAIN LowerCase}
              \cup {UpperCase[i] : i \in DOMAIN UpperCase}

\* re.match(r'^[a-zA-Z0-9._%+-]+@[a-zA-Z0-9.-]+\.[a-zA-Z]{2,}$', email)
\* (validators.py:35-36); "$" also matches in front of one final newline
EmailMatches(email) ==
    LET n == IF email # <<>> /\ email[Len(email)] = "\n"
               THEN {Len(email), Len(email) - 1} ELSE {Len(email)}
        within(a, b, class) == \A k \in a..b : email[k] \in class
    IN \E end \in n : \E i \in 2..end : \E j \in (i + 2)..(end - 2) :
          /\ within(1, i - 1, Letters \cup Digits \cup {".", "_", "%", "+", "-"})
          /\ email[i] = "@"
          /\ within(i + 1, j - 1, Letters \cup Digits \cup {".", "-"})
          /\ email[j] = "."
          /\ within(j + 1, end, Letters)

\* a slip that keeps the errors of the records validated before
KeepErrors(errs) == errs

\* self.errors = [] at the start of validate (validators.py:46, 68, 93)
ResetErrors(errs) == <<>>

\* validators.py:11-17: the first required field that is absent or None
\* adds one error and ends the check
RECURSIVE check_required_fields(_, _, _, _)
check_required_fields(errs, data, required_fields, i) ==
    IF i > Len(required_fields) THEN [errors |-> errs, ret |-> TRUE]
    ELSE LET field == required_fields[i]
         IN IF field \notin DOMAIN data \/ data[field] = Null
              THEN [errors |-> Append(errs, "Missing required field: " \o field),
                    ret |-> FALSE]
              ELSE check_required_fields(errs, data, required_fields, i + 1)

\* validators.py:19-24 on a string: the errors list afterwards
check_string_not_empty(errs, value, field_name) ==
    IF value.s = <<>> \/ \A k \in 1..Len(value.s) : value.s[k] \in Whitespace
      THEN Append(errs, "Field " \o field_name \o " cannot be empty")
      ELSE errs

\* validators.py:26-31: the errors list afterwards
check_positive_integer(errs, value, field_name) ==
    IF value.t # "int" \/ value.n <= 0
      THEN Append(errs, "Field " \o field_name \o " must be a positive integer")
      ELSE errs

\* validators.py:33-39: the errors list afterwards
check_email_format(errs, email) ==
    IF ~EmailMatches(email.s) THEN Append(errs, "Invalid email format") ELSE errs

Verdict(errs) == [errors |-> errs, ret |-> Len(errs) = 0]

\* PostValidator.validate (validators.py:44-61)
PostValidator_validate(errs, post) ==
    LET required == check_required_fields(ResetErrors(errs), post,
                                          <<"id", "userId", "title", "body">>, 1)
    IN IF ~required.ret THEN required
       ELSE LET e1 == check_positive_integer(required.errors, post["id"], "id")
                e2 == check_positive_integer(e1, post["userId"], "userId")
                e3 == check_string_not_empty(e2, post["title"], "title")
                e4 == check_string_not_empty(e3, post["body"], "body")
            IN Verdict(e4)

\* CommentValidator.validate (validators.py:66-86)
CommentValidator_validate(errs, comment) ==
    LET required == check_required_fields(ResetErrors(errs), comment,
                        <<"id", "postId", "name", "email", "body">>, 1)
    IN IF ~required.ret THEN required
       ELSE LET e1 == check_positive_integer(required.errors, comment["id"], "id")
                e2 == check_positive_integer(e1, comment["postId"], "postId")
                e3 == check_string_not_empty(e2, comment["name"], "name")
                e4 == check_string_not_empty(e3, comment["body"], "body")
                e5 == check_email_format(e4, comment["email"])
            IN Verdict(e5)

\* UserValidator.validate (validators.py:91-110)
UserValidator_validate(errs, user) ==
    LET required == check_required_fields(ResetErrors(errs), user,
                        <<"id", "name", "username", "email">>, 1)
    IN IF ~required.ret THEN required
       ELSE LET e1 == check_positive_integer(required.errors, user["id"], "id")
                e2 == check_string_not_empty(e1, user["name"], "name")
                e3 == check_string_not_empty(e2, user["username"], "username")
                e4 == check_email_format(e3, user["email"])
            IN Verdict(e4)

\* self.validator.validate(record) of the stream called name
\* (streams.py:63, 96, 131)
validate(n, errs, record) ==
    IF n = "users" THEN UserValidator_validate(errs, record)
    ELSE IF n = "posts" THEN PostValidator_validate(errs, record)
    ELSE CommentValidator_validate(errs, record)

(***************************************************************************)
(* The fetched records.                                                    *)
(***************************************************************************)
TextT == Str(<<"t">>)
TextBlank == Str(<<" ", "\t">>)
TextNone == Str(<<>>)
MailGood == Str(<<"a", "@", "b", ".", "c", "o">>)
MailNewline == Str(<<"a", "@", "b", ".", "c", "o", "\n">>)
MailBad == Str(<<"a", "@", "b", ".", "c">>)

FetchedPost(id, userId, title, body) ==
    [id |-> id, userId |-> userId, title |-> title, body |-> body]
FetchedComment(id, postId, nm, email, body) ==
    [id |-> id, postId |-> postId, name |-> nm, email |-> email, body |-> body]
FetchedUser(id, nm, username, email) ==
    [id |-> id, name |-> nm, username |-> username, email |-> email]

\* all of f but the key k
Without(f, k) == [x \in DOMAIN f \ {k} |-> f[x]]

FetchedPosts ==
    {FetchedPost(Num(2), Num(1), TextT, TextT),
     FetchedPost(Num(1), Num(1), TextT, TextT),
     FetchedPost(Num(4), Num(0), TextBlank, TextNone),
     FetchedPost(Num(6), Num(1), Null, TextT),
     FetchedPost(Num(0), Num(1), TextT, TextT),
     FetchedPost(Str(<<"7">>), Num(1), TextT, TextT),
     FetchedPost(Null, Num(1), TextT, TextT),
     Without(FetchedPost(Num(8), Num(1), TextT, TextT), "id"),
     Without(Without(FetchedPost(Num(8), Num(1), TextT, TextT), "title"), "body")}

FetchedComments ==
    {FetchedComment(Num(1), Num(2), TextT, MailGood, TextT),
     FetchedComment(Num(2), Num(1), TextT, MailGood, TextT),
     FetchedComment(Num(3), Num(4), TextT, MailNewline, TextT),
     FetchedComment(Num(4), Num(2), TextBlank, MailBad, TextT),
     FetchedComment(Num(5), Num(2), TextT, Null, TextT),
     FetchedComment(Num(6), Num(0), TextT, MailGood, TextNone),
     FetchedComment(Num(7), Null, TextT, MailGood, TextT),
     Without(FetchedComment(Num(8), Num(2), TextT, MailGood, TextT), "postId"),
     Without(Without(FetchedComment(Num(9), Num(2), TextT, MailGood, TextT),
                     "email"), "name")}

FetchedUsers ==
    {FetchedUser(Num(1), TextT, TextT, MailGood),
     FetchedUser(Num(2), TextT, TextT, MailNewline),
     FetchedUser(Num(0), TextT, TextBlank, MailGood),
     FetchedUser(Num(3), TextNone, TextT, MailBad),
     FetchedUser(Str(<<"7">>), TextT, TextT, MailGood),
     FetchedUser(Num(4), Null, TextT, MailGood),
     Without(FetchedUser(Num(5), TextT, TextT, MailGood), "id"),
     Without(Without(FetchedUser(Num(6), TextT, TextT, MailGood), "email"),
             "name")}

StreamNames == {"users", "posts", "comments"}

Fetched(n) ==
    IF n = "users" THEN FetchedUsers
    ELSE IF n = "posts" THEN FetchedPosts
    ELSE FetchedComments

\* the analyzer object is as constructed
AnalyzerIdle ==
    /\ cls = "JSONPlaceholderAnalyzer"
    /\ users = <<>>
    /\ posts = <<>>
    /\ comments = <<>>
    /\ input = [lines |-> <<>>, cond |-> "ok"]
    /\ pc = "idle"
    /\ enc = 1
    /\ pos = 0
    /\ line_count = 0
    /\ ret = "None"
    /\ shown = {}
    /\ loads = 0
    /\ decodeErrors = 0
    /\ fed = <<>>
    /\ before = Empty
    /\ given = 0
    /\ rpc = "idle"
    /\ out = <<>>
    /\ ua = NoResult
    /\ cp = NoResult
    /\ pe = NoResult
    /\ ExportIdle

analyzerVars == <<cls, users, posts, comments, input, pc, enc, pos, line_count,
                  ret, shown, loads, decodeErrors, fed, before, given, rpc,
                  out, ua, cp, pe, exportVars>>

(***************************************************************************)
(* One validator object, called on one record after another.               *)
(***************************************************************************)
MaxValidated == 3   \* validate calls on one validator object

InitValidators ==
    /\ AnalyzerIdle
    /\ TapFresh
    /\ name \in StreamNames

Validate ==
    /\ Len(validated) < MaxValidated
    /\ \E record \in Fetched(name) :
          LET r == validate(name, errors, record)
          IN /\ errors' = r.errors
             /\ verdict' = IF r.ret THEN "True" ELSE "False"
             /\ validated' = Append(validated, record)
    /\ UNCHANGED <<name, response, cursor, yielded, spc, total_records,
                   valid_records, invalid_records, error_types, updates,
                   summary>>
    /\ UNCHANGED analyzerVars

NextValidators == Validate

SpecValidators == InitValidators /\ [][NextValidators]_vars

(***************************************************************************)
(* parse_response of the three streams (streams.py:65-77, 98-111,          *)
(* 133-146): a generator over the fetched records.                         *)
(***************************************************************************)
MaxFetched == 3   \* records in one response

\* datetime.utcnow().isoformat()
Timestamp == "utcnow"

\* the key whose parity selects the records of the stream
\* (streams.py:102, 137)
ParityKey(n) == IF n = "posts" THEN "id" ELSE "postId"

\* validate and annotate (streams.py:69-77, 103-111, 138-146): the record
\* as yielded and the validator's errors afterwards
Validated(n, errs, record) ==
    LET r == validate(n, errs, record)
    IN [exc |-> "none",
        errors |-> r.errors,
        verdict |-> IF r.ret THEN "True" ELSE "False",
        out |-> <<IF r.ret THEN record
                  ELSE Put(record, "_metadata",
                           [validation_errors |-> r.errors,
                            validation_timestamp |-> Timestamp])>>]

Untouched(exc, errs, v) == [exc |-> exc, errors |-> errs, verdict |-> v, out |-> <<>>]

\* one iteration of the loop over the fetched records
ParseRecord(n, errs, v, record) ==
    IF n = "users" THEN Validated(n, errs, record)
    ELSE IF ParityKey(n) \notin DOMAIN record THEN Untouched("KeyError", errs, v)
    ELSE IF record[ParityKey(n)].t # "int" THEN Untouched("TypeError", errs, v)
    ELSE IF record[ParityKey(n)].n % 2 = 0 THEN Validated(n, errs, record)
    ELSE Untouched("none", errs, v)

InitStreams ==
    /\ AnalyzerIdle
    /\ name \in StreamNames
    /\ response \in SeqsUpTo(Fetched(name), MaxFetched)
    /\ cursor = 0
    /\ yielded = <<>>
    /\ spc = "running"
    /\ errors = <<>>
    /\ verdict = "None"
    /\ validated = <<>>
    /\ total_records = 0
    /\ valid_records = 0
    /\ invalid_records = 0
    /\ error_types = <<>>
    /\ updates = <<>>
    /\ summary = NoResult

ParseNext ==
    /\ spc = "running"
    /\ cursor < Len(response)
    /\ LET r == ParseRecord(name, errors, verdict, response[cursor + 1])
       IN /\ errors' = r.errors
          /\ verdict' = r.verdict
          /\ IF r.exc # "none"
               THEN /\ spc' = "raised"
                    /\ UNCHANGED <<response, yielded>>
               ELSE /\ spc' = spc
                    /\ response' = IF r.out = <<>> THEN response
                                   ELSE [response EXCEPT ![cursor + 1] = r.out[1]]
                    /\ yielded' = yielded \o r.out
    /\ cursor' = cursor + 1
    /\ UNCHANGED <<name, validated, total_records, valid_records,
                   invalid_records, error_types, updates, summary>>
    /\ UNCHANGED analyzerVars

ParseEnd ==
    /\ spc = "running"
    /\ cursor = Len(response)
    /\ spc' = "done"
    /\ UNCHANGED <<name, response, cursor, yielded, errors, verdict, validated,
                   total_records, valid_records, invalid_records, error_types,
                   updates, summary>>
    /\ UNCHANGED analyzerVars

NextStreams ==
    \/ ParseNext
    \/ ParseEnd

SpecStreams == InitStreams /\ [][NextStreams]_vars

(***************************************************************************)
(* ValidationStats (streams.py:149-178).                                   *)
(***************************************************************************)
MaxUpdates == 2   \* update calls on one ValidationStats object

List(l) == [t |-> "list", l |-> l]

\* the errors argument of update: None, or a list of error strings
ErrorArgs ==
    {Null, List(<<>>), List(<<"Invalid email format">>),
     List(<<"Invalid email format", "Invalid email format">>),
     List(<<"Invalid email format", "Missing required field: id">>)}

\* for error in errors: error_types[error] = error_types.get(error, 0) + 1
RECURSIVE TallyErrors(_, _, _)
TallyErrors(types, errs, i) ==
    IF i > Len(errs) THEN types
    ELSE TallyErrors(Put(types, errs[i],
                         (IF errs[i] \in DOMAIN types THEN types[errs[i]] ELSE 0) + 1),
                     errs, i + 1)

\* "if errors:" on None or a list
Truthy(errs) == errs.t = "list" /\ errs.l # <<>>

Stats == [total_records |-> total_records, valid_records |-> valid_records,
          invalid_records |-> invalid_records, error_types |-> error_types]

\* a slip that tallies the errors of valid records too
update_tallying_all(st, is_valid, errs) ==
    [total_records |-> st.total_records + 1,
     valid_records |-> st.valid_records + (IF is_valid THEN 1 ELSE 0),
     invalid_records |-> st.invalid_records + (IF is_valid THEN 0 ELSE 1),
     error_types |-> IF Truthy(errs) THEN TallyErrors(st.error_types, errs.l, 1)
                     ELSE st.error_types]

\* ValidationStats.update (streams.py:158-167)
update(st, is_valid, errs) ==
    IF is_valid
      THEN [st EXCEPT !.total_records = @ + 1, !.valid_records = @ + 1]
      ELSE [st EXCEPT !.total_records = @ + 1,
                      !.invalid_records = @ + 1,
                      !.error_types = IF Truthy(errs)
                                        THEN TallyErrors(@, errs.l, 1) ELSE @]

\* ValidationStats.get_summary (streams.py:169-178); the float
\* valid_records / total_records * 100 is the exact fraction
get_summary(st) ==
    Returned([total_records |-> st.total_records,
              valid_records |-> st.valid_records,
              invalid_records |-> st.invalid_records,
              validity_rate |-> IF st.total_records > 0
                                  THEN Quot(st.valid_records * 100, st.total_records)
                                  ELSE Zero,
              error_types |-> st.error_types])

InitStats ==
    /\ AnalyzerIdle
    /\ TapIdle

Update ==
    /\ Len(updates) < MaxUpdates
    /\ \E is_valid \in BOOLEAN, errs \in ErrorArgs :
          LET st == update(Stats, is_valid, errs)
          IN /\ total_records' = st.total_records
             /\ valid_records' = st.valid_records
             /\ invalid_records' = st.invalid_records
             /\ error_types' = st.error_types
             /\ updates' = Append(updates, [is_valid |-> is_valid, errors |-> errs])
             \* a summary taken earlier holds the error_types dict itself
             /\ summary' = IF summary.err = "none"
                             THEN Returned([summary.val EXCEPT
                                              !.error_types = st.error_types])
                             ELSE summary
    /\ UNCHANGED <<name, response, cursor, yielded, spc, errors, verdict,
                   validated>>
    /\ UNCHANGED analyzerVars

GetSummary ==
    /\ summary' = get_summary(Stats)
    /\ UNCHANGED <<name, response, cursor, yielded, spc, errors, verdict,
                   validated, total_records, valid_records, invalid_records,
                   error_types, updates>>
    /\ UNCHANGED analyzerVars

NextStats ==
    \/ Update
    \/ GetSummary

SpecStats == InitStats /\ [][NextStats]_vars

(***************************************************************************)
(* Properties of ingestion, checked under Spec.                            *)
(***************************************************************************)
Streams == {"users", "posts", "comments"}

\* The line does not parse, or parses to a message whose type is not RECORD,
\* or to a RECORD of a stream other than the three.
IsIgnored(line) ==
    \/ ~line.json
    \/ /\ line.json
       /\ "type" \in DOMAIN line.msg
       /\ \/ line.msg.type # "RECORD"
          \/ /\ "stream" \in DOMAIN line.msg
             /\ line.msg.stream \notin Streams

\* The line parses but lacks a field needed to classify it.
IsUnclassifiable(line) ==
    /\ line.json
    /\ \/ "type" \notin DOMAIN line.msg
       \/ /\ line.msg.type = "RECORD"
          /\ \/ "stream" \notin DOMAIN line.msg
             \/ /\ line.msg.stream \in Streams
                /\ \/ "record" \notin DOMAIN line.msg
                   \/ /\ line.msg.stream = "users"
                      /\ "id" \notin DOMAIN line.msg.record

\* The line is a complete RECORD of the stream.
IsRecordOf(line, stream) ==
    /\ ~IsIgnored(line)
    /\ ~IsUnclassifiable(line)
    /\ line.msg.stream = stream

WithoutIgnored(lines) == SelectSeq(lines, LAMBDA l : ~IsIgnored(l))
WithoutUnclassifiable(lines) == SelectSeq(lines, LAMBDA l : ~IsUnclassifiable(l))

\* the records of the stream's lines, in the order of the lines
RecordsOf(lines, stream) ==
    LET sel == SelectSeq(lines, LAMBDA l : IsRecordOf(l, stream))
    IN [i \in 1..Len(sel) |-> sel[i].msg.record]

\* the users dict after the users records us have been stored over the dict d:
\* each id maps to the last record carrying it
LastWins(d, us) ==
    LET ids == {us[i].id : i \in 1..Len(us)}
        last(k) == CHOOSE i \in 1..Len(us) :
                      /\ us[i].id = k
                      /\ \A j \in 1..Len(us) : us[j].id = k => j <= i
    IN [k \in DOMAIN d \cup ids |-> IF k \in ids THEN us[last(k)] ELSE d[k]]

\* a call that obtained the text and read it in one pass has returned
ReadInOnePass == pc = "returned" /\ input.cond = "ok" /\ decodeErrors = 0

\* C1: a line that does not parse, a parsed line whose type is not RECORD and
\* a RECORD line of an unknown stream are no-ops of ingestion, in both
\* classes: at every moment the collections are those the line loop builds
\* from the lines it was handed with such lines removed, and when a call
\* has read the text in one pass they are those it builds from the input
\* with such lines removed (so the lines after such a line were ingested).
C1_IgnoredLinesAreNoOps ==
    /\ Current = Ingest(cls, before, WithoutIgnored(fed), 1)
    /\ ReadInOnePass =>
          Current = Ingest(cls, before, WithoutIgnored(input.lines), 1)

\* a call returned True on an input whose first line is ignored and whose
\* second line, a RECORD, was ingested
C1_Witness ==
    /\ ReadInOnePass
    /\ ret = "True"
    /\ cls = "DashboardAnalyzer"
    /\ Len(input.lines) = 2
    /\ IsIgnored(input.lines[1])
    /\ IsRecordOf(input.lines[2], "comments")
    /\ comments = Append(before.comments, input.lines[2].msg.record)

\* C2: a line that parses but lacks the fields needed to classify it is
\* skipped with no user-visible error in both classes: the call does not
\* return failure, shows no error, and the collections are those built from
\* the input with such lines removed.
C2_UnclassifiableLinesAreSkippedSilently ==
    ReadInOnePass =>
        /\ ret = "True"
        /\ shown = {}
        /\ Current = Ingest(cls, before, WithoutUnclassifiable(input.lines), 1)

\* C3: users maps each id to the record of the last users line carrying it,
\* posts and comments are the records of the posts and comments lines in
\* input order, duplicates retained, so their lengths grow by the number of
\* such lines handed to the line loop.
C3_UsersLastWinsPostsCommentsAppend ==
    /\ users = LastWins(before.users, RecordsOf(fed, "users"))
    /\ posts = before.posts \o RecordsOf(fed, "posts")
    /\ comments = before.comments \o RecordsOf(fed, "comments")
    /\ Len(posts) = Len(before.posts)
                      + Cardinality({i \in 1..Len(fed) : IsRecordOf(fed[i], "posts")})
    /\ Len(comments) = Len(before.comments)
                      + Cardinality({i \in 1..Len(fed) : IsRecordOf(fed[i], "comments")})

\* two users lines with one id were read in one call and the record of the
\* second is the one kept, as the only entry
C3_Witness ==
    /\ pc = "returned"
    /\ ret = "True"
    /\ fed = <<RecordLine("users", UserA), RecordLine("users", UserB)>>
    /\ users = [k \in {1} |-> UserB]
    /\ DOMAIN before.users = {}

\* C4: after a second load_data call on the same object the collections
\* reflect only the second input.
C4_SecondLoadReplacesState ==
    (ReadInOnePass /\ ret = "True" /\ loads >= 2) =>
        Current = Ingest(cls, Empty, input.lines, 1)

(***************************************************************************)
(* Properties of generate_report, checked under Spec.                      *)
(***************************************************************************)
Printed(section) == \E i \in 1..Len(out) : out[i] = section

\* C6: generate_report does not abort when one analysis fails on a record
\* lacking a field it requires, and the sections of the analyses that do
\* not fail are still rendered.
C6_ReportConfinesAnalysisFailure ==
    rpc \in {"done", "raised"} =>
        /\ rpc = "done"
        /\ (analyze_user_activity(Current).err = "none"
              /\ DOMAIN analyze_user_activity(Current).val # {})
             => Printed("User Activity Insights")
        /\ analyze_comment_patterns(Current).err = "none"
             => Printed("Comment Patterns")
        /\ (analyze_post_engagement(Current).err = "none"
              /\ posts # <<>>)
             => Printed("Post Engagement Insights")

(***************************************************************************)
(* Properties of the analyses, checked under SpecMetrics and SpecRanking.  *)
(***************************************************************************)
RECURSIVE SumFn(_, _)
SumFn(f, S) ==
    IF S = {} THEN 0
    ELSE LET x == CHOOSE y \in S : TRUE IN f[x] + SumFn(f, S \ {x})

\* the userIds that have at least one post
Authors == {posts[i].userId : i \in 1..Len(posts)}

PostsBy(u) == {i \in 1..Len(posts) : posts[i].userId = u}

\* the number of ingested comments whose postId is the id of post i
CommentsOn(i) ==
    Cardinality({j \in 1..Len(comments) : comments[j].postId = posts[i].id})

\* the number of whitespace-delimited words of a text: the positions where a
\* non-whitespace character starts the text or follows whitespace
WordsIn(text) ==
    Cardinality({k \in 1..Len(text) :
                    /\ text[k] \notin Whitespace
                    /\ k = 1 \/ text[k - 1] \in Whitespace})

Placeholder(u) == "User " \o ToString(u)

\* C5 as stated: for every ingested state analyze_user_activity returns one
\* entry for each userId that has at least one post, and the post_count of
\* the entries sum to the number of ingested posts.
C5_OneEntryPerAuthor ==
    ua.err = "none" =>
        /\ DOMAIN ua.val = Authors
        /\ SumFn([u \in DOMAIN ua.val |-> ua.val[u].post_count], DOMAIN ua.val)
             = Len(posts)

\* C5 as amended: that holds when at least one user record was ingested;
\* when none was, analyze_user_activity returns no entry at all.
C5_OneEntryPerAuthorGivenUsers ==
    ua.err = "none" =>
        IF DOMAIN users = {}
          THEN DOMAIN ua.val = {}
          ELSE /\ DOMAIN ua.val = Authors
               /\ SumFn([u \in DOMAIN ua.val |-> ua.val[u].post_count],
                        DOMAIN ua.val) = Len(posts)

\* three posts of two authors, one of them no ingested user, were analysed
C5_Witness ==
    /\ ua.err = "none"
    /\ DOMAIN users = {1}
    /\ Len(posts) = 3
    /\ Authors = {1, 3}
    /\ DOMAIN ua.val = {1, 3}
    /\ ua.val[1].post_count + ua.val[3].post_count = 3

\* C7: with zero posts and zero comments the three analyses return without
\* raising, every count and average of their results is 0 and every list
\* and map is empty.
C7_EmptyInputGivesZeroResults ==
    (posts = <<>> /\ comments = <<>>) =>
        /\ ua.err # "uncalled" => ua.err = "none" /\ DOMAIN ua.val = {}
        /\ cp.err # "uncalled" =>
              /\ cp.err = "none"
              /\ cp.val.total_comments = 0
              /\ cp.val.avg_comment_length = Zero
              /\ Len(cp.val.common_email_domains) = 0
              /\ cp.val.sentiment_indicators.positive_words = 0
              /\ cp.val.sentiment_indicators.negative_words = 0
              /\ cp.val.sentiment_indicators.question_comments = 0
              /\ Len(cp.val.most_common_words) = 0
        /\ pe.err # "uncalled" =>
              /\ pe.err = "none"
              /\ pe.val.total_posts = 0
              /\ \A b \in {"short", "medium", "long"} : pe.val.posts_by_length[b] = 0
              /\ \A k \in {"min", "max", "avg", "median"} :
                    pe.val.title_length_stats[k] = Zero
              /\ Len(pe.val.most_engaging_posts) = 0
              /\ DOMAIN pe.val.engagement_by_user = {}

\* the three analyses have returned on a state with users and nothing else
C7_Witness ==
    /\ posts = <<>>
    /\ comments = <<>>
    /\ DOMAIN users = {1, 2}
    /\ ua.err = "none"
    /\ cp.err = "none"
    /\ pe.err = "none"

CountedInEngagement(i) ==
    pe.err = "none" =>
        LET u == posts[i].userId
            b == Bucket(WordsIn(posts[i].body))
        IN /\ pe.val.total_posts = Len(posts)
           /\ pe.val.posts_by_length[b]
                = Cardinality({j \in 1..Len(posts) :
                                  Bucket(WordsIn(posts[j].body)) = b})
           /\ Len(posts) <= TopPosts =>
                 \E k \in 1..Len(pe.val.most_engaging_posts) :
                     pe.val.most_engaging_posts[k]
                       = [post_id |-> posts[i].id, title |-> posts[i].title,
                          user_id |-> u, comment_count |-> CommentsOn(i)]
           /\ u \in DOMAIN pe.val.engagement_by_user
           /\ pe.val.engagement_by_user[u]
                = SumFn([j \in PostsBy(u) |-> CommentsOn(j)], PostsBy(u))

\* C9 as stated: a post whose userId matches no ingested user is counted by
\* analyze_post_engagement, and the entry of analyze_user_activity for its
\* userId has the placeholder as username; a resolving id has the user's own.
C9_OrphanPostsAreCounted ==
    \A i \in 1..Len(posts) :
        LET u == posts[i].userId
        IN /\ u \notin DOMAIN users => CountedInEngagement(i)
           /\ ua.err = "none" =>
                 /\ u \in DOMAIN ua.val
                 /\ ua.val[u].username
                      = IF u \in DOMAIN users THEN users[u].username
                        ELSE Placeholder(u)

\* C9 as amended: the entry of analyze_user_activity exists, with that
\* username, when at least one user record was ingested.
C9_OrphanPostsAreCountedGivenUsers ==
    \A i \in 1..Len(posts) :
        LET u == posts[i].userId
        IN /\ u \notin DOMAIN users => CountedInEngagement(i)
           /\ (ua.err = "none" /\ DOMAIN users # {}) =>
                 /\ u \in DOMAIN ua.val
                 /\ ua.val[u].username
                      = IF u \in DOMAIN users THEN users[u].username
                        ELSE Placeholder(u)

\* a commented post of an unknown user and a post of alice were analysed
C9_Witness ==
    /\ ua.err = "none"
    /\ pe.err = "none"
    /\ DOMAIN users = {1}
    /\ \E i \in 1..Len(posts) : posts[i] = PostW
    /\ \E i \in 1..Len(posts) : posts[i] = PostX
    /\ ua.val[3].username = "User 3"
    /\ ua.val[1].username = "alice"
    /\ pe.val.engagement_by_user[3] > 0

\* the place of post i in the ranking: behind the posts with more comments
\* and behind the earlier posts with as many
Rank(i) ==
    1 + Cardinality({j \in 1..Len(posts) :
                        \/ CommentsOn(j) > CommentsOn(i)
                        \/ CommentsOn(j) = CommentsOn(i) /\ j < i})

\* C10: most_engaging_posts has min(5, number of posts) entries in
\* non-increasing comment_count; its k-th entry is the post of rank k, so no
\* excluded post has more comments than an included one, and posts with
\* equal comment_count are kept, and selected, in ingestion order.
C10_MostEngagingIsStableTopFive ==
    pe.err = "none" =>
        LET m == pe.val.most_engaging_posts
        IN /\ Len(m) = IF Len(posts) < TopPosts THEN Len(posts) ELSE TopPosts
           /\ \A k \in 1..(Len(m) - 1) :
                 m[k].comment_count >= m[k + 1].comment_count
           /\ \A k \in 1..Len(m) :
                 \E i \in 1..Len(posts) :
                     /\ Rank(i) = k
                     /\ m[k] = [post_id |-> posts[i].id, title |-> posts[i].title,
                                user_id |-> posts[i].userId,
                                comment_count |-> CommentsOn(i)]

\* six posts were ranked, the excluded one has as many comments as an
\* included one, and the included ones do not all have the same count
C10_Witness ==
    /\ pe.err = "none"
    /\ Len(posts) = 6
    /\ Len(pe.val.most_engaging_posts) = 5
    /\ \E i, j \in 1..Len(posts) :
          /\ Rank(i) = 6
          /\ Rank(j) <= 5
          /\ CommentsOn(i) = CommentsOn(j)
          /\ posts[i].id # posts[j].id
    /\ pe.val.most_engaging_posts[1].comment_count
         > pe.val.most_engaging_posts[5].comment_count

(***************************************************************************)
(* Properties of analyze_comment_patterns, checked under SpecComments.     *)
(***************************************************************************)
\* the lowercased email from behind its last "@" on, all of it without one
DomainOf(email) ==
    LET low == Lower(email)
        n == Len(low)
        k == CHOOSE i \in 1..(n + 1) :
                /\ i = 1 \/ low[i - 1] = "@"
                /\ \A j \in i..n : low[j] # "@"
    IN SubSeq(low, k, n)

RECURSIVE Concat(_, _)
Concat(seqs, i) == IF i > Len(seqs) THEN <<>> ELSE seqs[i] \o Concat(seqs, i + 1)

\* the email domains of the ingested comments, in their order
DomainKeys == [i \in 1..Len(comments) |-> DomainOf(comments[i].email)]

\* the lowercased whitespace-split tokens of the bodies, in their order
WordKeys == Concat([i \in 1..Len(comments) |-> Split(Lower(comments[i].body))], 1)

KeysOf(keys) == {keys[i] : i \in 1..Len(keys)}
Occ(keys, k) == Cardinality({i \in 1..Len(keys) : keys[i] = k})
FirstAt(keys, k) == CHOOSE i \in 1..Len(keys) :
                       keys[i] = k /\ \A j \in 1..(i - 1) : keys[j] # k

\* the place of key k: behind the keys that occur more often and behind
\* those first encountered earlier that occur as often
KeyRank(keys, k) ==
    1 + Cardinality({h \in KeysOf(keys) :
                        \/ Occ(keys, h) > Occ(keys, k)
                        \/ /\ Occ(keys, h) = Occ(keys, k)
                           /\ FirstAt(keys, h) < FirstAt(keys, k)})

\* top is the n highest-frequency keys with their counts, in non-increasing
\* count order, ties in first-encountered order
IsTop(top, keys, n) ==
    /\ Len(top) <= n
    /\ Len(top) = IF Cardinality(KeysOf(keys)) < n
                    THEN Cardinality(KeysOf(keys)) ELSE n
    /\ \A p \in 1..(Len(top) - 1) : top[p][2] >= top[p + 1][2]
    /\ \A p \in 1..Len(top) :
          \E k \in KeysOf(keys) :
              KeyRank(keys, k) = p /\ top[p] = <<k, Occ(keys, k)>>
    /\ SumSeq([p \in 1..Len(top) |-> top[p][2]], 1) <= Len(keys)

\* C11: common_email_domains holds at most 5 entries and most_common_words
\* at most 10, each the highest-frequency keys in non-increasing count order
\* with ties in first-encountered order; a domain is the lowercased text
\* behind the last "@" of the email; the domain counts sum to at most
\* total_comments and the word counts to at most the number of tokens.
C11_TopDomainsAndWordsAreStableTopN ==
    cp.err = "none" =>
        /\ Len(cp.val.common_email_domains) <= 5
        /\ Len(cp.val.most_common_words) <= 10
        /\ IsTop(cp.val.common_email_domains, DomainKeys, 5)
        /\ IsTop(cp.val.most_common_words, WordKeys, 10)
        /\ SumSeq([p \in 1..Len(cp.val.common_email_domains) |->
                      cp.val.common_email_domains[p][2]], 1)
             <= cp.val.total_comments
        /\ cp.val.total_comments = Len(comments)

\* comments of six domains and more than ten words were analysed: five
\* domains and ten words are kept, a domain left out occurs as often as one
\* kept, and the domain of an email with two "@" is among those kept
C11_Witness ==
    /\ cp.err = "none"
    /\ Cardinality(KeysOf(DomainKeys)) = 6
    /\ Cardinality(KeysOf(WordKeys)) > 10
    /\ Len(cp.val.common_email_domains) = 5
    /\ Len(cp.val.most_common_words) = 10
    /\ \E k \in KeysOf(DomainKeys) :
          /\ KeyRank(DomainKeys, k) = 6
          /\ Occ(DomainKeys, k) = cp.val.common_email_domains[5][2]
    /\ \E p \in 1..5 : cp.val.common_email_domains[p][1] = <<"b">>
    /\ cp.val.common_email_domains[1] = <<(<<"a">>), 2>>

\* word occurs in text as a run of consecutive characters
Occurs(word, text) ==
    \E i \in 1..Len(text) : \E j \in i..Len(text) : SubSeq(text, i, j) = word

PositiveIn(body) ==
    Cardinality({w \in simple_sentiment_pos : Occurs(w, Lower(body))})
NegativeIn(body) ==
    Cardinality({w \in simple_sentiment_neg : Occurs(w, Lower(body))})
Asks(body) == \E i \in 1..Len(body) : body[i] = "?"

\* C12: each comment adds to positive_words the number of distinct words of
\* the positive lexicon that occur in its lowercased body (0..6), likewise
\* to negative_words, and 1 to question_comments iff its body contains "?";
\* so the two word counts are at most 6 * total_comments, question_comments
\* at most total_comments, and "This is sad but thanks!" alone gives 1, 1, 0.
C12_SentimentCountsArePerCommentSubstringHits ==
    cp.err = "none" =>
        LET s == cp.val.sentiment_indicators
            all == 1..Len(comments)
        IN /\ \A i \in all : /\ PositiveIn(comments[i].body) \in 0..6
                              /\ NegativeIn(comments[i].body) \in 0..6
           /\ s.positive_words
                = SumFn([i \in all |-> PositiveIn(comments[i].body)], all)
           /\ s.negative_words
                = SumFn([i \in all |-> NegativeIn(comments[i].body)], all)
           /\ s.question_comments
                = Cardinality({i \in all : Asks(comments[i].body)})
           /\ s.positive_words <= 6 * cp.val.total_comments
           /\ s.negative_words <= 6 * cp.val.total_comments
           /\ s.question_comments <= cp.val.total_comments
           /\ comments = <<CommentThanks>> =>
                 /\ s.positive_words = 1
                 /\ s.negative_words = 1
                 /\ s.question_comments = 0

\* the comment "This is sad but thanks!" was analysed alone
C12_Witness ==
    /\ comments = <<CommentThanks>>
    /\ cp.err = "none"
    /\ cp.val.sentiment_indicators
         = [positive_words |-> 1, negative_words |-> 1, question_comments |-> 0]

(***************************************************************************)
(* Properties of analyze_post_engagement, checked under SpecLengths.       *)
(***************************************************************************)
\* C13: every ingested post is in exactly one bucket by the word count w of
\* its body, short iff w < 100, medium iff 100 <= w <= 199, long iff
\* w >= 200, so the three counts sum to total_posts, the number of ingested
\* posts, duplicates included.
C13_EveryPostIsInOneLengthBucket ==
    pe.err = "none" =>
        LET w(i) == WordsIn(posts[i].body)
            all == 1..Len(posts)
            by == pe.val.posts_by_length
        IN /\ by.short = Cardinality({i \in all : w(i) < 100})
           /\ by.medium = Cardinality({i \in all : 100 <= w(i) /\ w(i) <= 199})
           /\ by.long = Cardinality({i \in all : w(i) >= 200})
           /\ by.short + by.medium + by.long = pe.val.total_posts
           /\ pe.val.total_posts = Len(posts)

\* posts of 99, 100 and 200 words were bucketed, one to each bucket
C13_Witness ==
    /\ pe.err = "none"
    /\ Len(posts) = 3
    /\ \E i, j, k \in 1..Len(posts) :
          /\ WordsIn(posts[i].body) = 99
          /\ WordsIn(posts[j].body) = 100
          /\ WordsIn(posts[k].body) = 200
    /\ pe.val.posts_by_length = [short |-> 1, medium |-> 1, long |-> 1]

(***************************************************************************)
(* Properties of main, checked under SpecMain.                             *)
(***************************************************************************)
Called(r) == r.err # "uncalled"

\* C14: each analysis leaves users, posts and comments unchanged, so the
\* results are the same for every order of invocation and for repeated
\* invocations: the collections stay those load_data built, every result
\* obtained is the analysis of that state, and export_to_csv obtains the
\* metrics generate_report obtained.
C14_AnalysesArePureReads ==
    /\ Current = Ingest(cls, Empty, input.lines, 1)
    /\ Called(ua) => ua = analyze_user_activity(Ingest(cls, Empty, input.lines, 1))
    /\ Called(cp) => cp = analyze_comment_patterns(Ingest(cls, Empty, input.lines, 1))
    /\ Called(pe) => pe = analyze_post_engagement(Ingest(cls, Empty, input.lines, 1))
    /\ (Called(ua) /\ Called(csv.user_metrics)) => csv.user_metrics = ua
    /\ (Called(cp) /\ Called(csv.comment_metrics)) => csv.comment_metrics = cp
    /\ (Called(pe) /\ Called(csv.post_metrics)) => csv.post_metrics = pe

\* generate_report and then export_to_csv ran to their ends on a state with
\* a user, a post of an unknown user and a comment
C14_Witness ==
    /\ rpc = "done"
    /\ xpc = "done"
    /\ DOMAIN users = {1}
    /\ \E i \in 1..Len(posts) : posts[i].userId \notin DOMAIN users
    /\ comments # <<>>
    /\ DOMAIN csv.user_metrics.val # {}
    /\ csv.comment_metrics.val.total_comments > 0
    /\ csv.post_metrics.val.total_posts > 0

(***************************************************************************)
(* The sections of generate_report, checked under Spec.                    *)
(***************************************************************************)
SectionOrder ==
    <<"User Activity Insights", "Comment Patterns", "Post Engagement Insights">>

Place(section) == CHOOSE k \in 1..Len(SectionOrder) : SectionOrder[k] = section

\* no section is printed before one that precedes it in the fixed order,
\* and none twice
SectionsInOrder ==
    /\ \A i \in 1..Len(out) : \E k \in 1..Len(SectionOrder) : SectionOrder[k] = out[i]
    /\ \A i, j \in 1..Len(out) : i < j => Place(out[i]) < Place(out[j])

\* C15 as stated: generate_report emits its sections in the fixed order, a
\* later section never before an earlier one, and each of the three
\* sections appears in the report, for every ingested state.
C15_ReportHasThreeSectionsInOrder ==
    /\ SectionsInOrder
    /\ rpc = "done" => out = SectionOrder

\* C15 as amended: the sections emitted are in the fixed order; a report
\* that ran to its end has Comment Patterns, has User Activity Insights
\* iff a user and a post were ingested, and has Post Engagement Insights
\* iff a post was ingested.
C15_ReportSectionsInOrderWhenPresent ==
    /\ SectionsInOrder
    /\ rpc = "done" =>
          /\ Printed("Comment Patterns")
          /\ Printed("User Activity Insights")
                <=> (DOMAIN users # {} /\ posts # <<>>)
          /\ Printed("Post Engagement Insights") <=> posts # <<>>

\* a report on a state with a user and a post has the three sections
C15_Witness ==
    /\ rpc = "done"
    /\ DOMAIN users # {}
    /\ posts # <<>>
    /\ out = SectionOrder

(***************************************************************************)
(* The two per-user totals, checked under SpecMetrics.                     *)
(***************************************************************************)
\* the two totals agree on the userId u
TotalsAgreeOn(u) ==
    /\ u \in DOMAIN pe.val.engagement_by_user
    /\ u \in DOMAIN ua.val
    /\ pe.val.engagement_by_user[u] = ua.val[u].total_comments_received
    /\ pe.val.engagement_by_user[u]
         = SumFn([i \in PostsBy(u) |-> CommentsOn(i)], PostsBy(u))

\* C16 as stated: for every ingested state and every userId u with a post,
\* engagement_by_user[u] equals total_comments_received of u's entry of
\* analyze_user_activity, and the two results have the same userId keys.
C16_EngagementEqualsCommentsReceived ==
    (ua.err = "none" /\ pe.err = "none") =>
        /\ \A u \in Authors : TotalsAgreeOn(u)
        /\ DOMAIN pe.val.engagement_by_user = DOMAIN ua.val

\* C16 as amended: that holds when at least one user record was ingested;
\* when none was, analyze_user_activity has no entry while
\* engagement_by_user has one for every userId with a post.
C16_EngagementEqualsCommentsReceivedGivenUsers ==
    (ua.err = "none" /\ pe.err = "none") =>
        IF DOMAIN users # {}
          THEN /\ \A u \in Authors : TotalsAgreeOn(u)
               /\ DOMAIN pe.val.engagement_by_user = DOMAIN ua.val
          ELSE /\ DOMAIN ua.val = {}
               /\ DOMAIN pe.val.engagement_by_user = Authors

\* alice has two commented posts and an unknown user has a commented post:
\* the two results agree on both
C16_Witness ==
    /\ ua.err = "none"
    /\ pe.err = "none"
    /\ DOMAIN users = {1}
    /\ posts = <<PostX, PostZ, PostY>>
    /\ comments = <<CommentX, CommentY>>
    /\ pe.val.engagement_by_user[1] = 2
    /\ ua.val[1].total_comments_received = 2
    /\ pe.val.engagement_by_user[3] = 1
    /\ ua.val[3].total_comments_received = 1

(***************************************************************************)
(* The encoding retry loop of load_data, checked under Spec.               *)
(***************************************************************************)
\* C17: records ingested under an encoding attempt that then fails with a
\* decoding error are not retained: when JSONPlaceholderAnalyzer.load_data
\* returns True the collections hold each RECORD line of the file once,
\* and when it returns False they are unchanged from before the call.
C17_FailedEncodingAttemptLeavesNoRecords ==
    (cls = "JSONPlaceholderAnalyzer" /\ pc = "returned") =>
        /\ ret = "True" =>
              /\ posts = before.posts \o RecordsOf(input.lines, "posts")
              /\ comments = before.comments \o RecordsOf(input.lines, "comments")
        /\ ret = "False" => Current = before

(***************************************************************************)
(* Properties of parse_response, checked under SpecStreams.                *)
(***************************************************************************)
\* the stream is to yield the fetched record: every user, a post with an
\* even id, a comment with an even postId
Selected(record) ==
    \/ name = "users"
    \/ /\ ParityKey(name) \in DOMAIN record
       /\ record[ParityKey(name)].t = "int"
       /\ record[ParityKey(name)].n % 2 = 0

\* C18: no record is dropped for failing validation: the records yielded
\* are the fetched users, the fetched posts with even id, or the fetched
\* comments with even postId, in fetch order; a yielded record carries
\* _metadata.validation_errors iff its validator returned False, and the
\* list is that validation's, whatever was validated later.
C18_StreamsYieldEverySelectedRecord ==
    /\ spc = "running" =>
          yielded = SelectSeq(SubSeq(response, 1, cursor), Selected)
    /\ spc # "running" => yielded = SelectSeq(response, Selected)
    /\ \A i \in 1..Len(yielded) :
          LET fetched == Without(yielded[i], "_metadata")
              v == validate(name, <<>>, fetched)
          IN /\ "_metadata" \in DOMAIN yielded[i] <=> ~v.ret
             /\ ~v.ret => yielded[i]["_metadata"].validation_errors = v.errors

(***************************************************************************)
(* Properties of the validators, checked under SpecValidators.             *)
(***************************************************************************)
RequiredOf(n) ==
    IF n = "users" THEN <<"id", "name", "username", "email">>
    ELSE IF n = "posts" THEN <<"id", "userId", "title", "body">>
    ELSE <<"id", "postId", "name", "email", "body">>

\* the required fields of the validator that record lacks or holds as null
MissingIn(n, record) ==
    {k \in 1..Len(RequiredOf(n)) :
        \/ RequiredOf(n)[k] \notin DOMAIN record
        \/ record[RequiredOf(n)[k]] = Null}

\* C19: after any sequence of validate calls on one validator object, errors
\* holds only the errors of the record validated last, which are those a
\* new validator finds in it, and validate returned True iff errors is
\* empty; a missing or null required field gives False with exactly one
\* error, naming the first such field.
C19_ErrorsAreThoseOfTheLastRecord ==
    validated # <<>> =>
        LET record == validated[Len(validated)]
            missing == MissingIn(name, record)
        IN /\ errors = validate(name, <<>>, record).errors
           /\ verdict \in {"True", "False"}
           /\ verdict = "True" <=> errors = <<>>
           /\ missing # {} =>
                 /\ verdict = "False"
                 /\ errors = <<"Missing required field: "
                                \o RequiredOf(name)[CHOOSE k \in missing :
                                                      \A h \in missing : k <= h]>>

\* a record lacking two required fields was validated after a record with
\* two invalid fields: one error, naming the first field lacking
C19_Witness ==
    /\ name = "posts"
    /\ Len(validated) = 2
    /\ Len(validate(name, <<>>, validated[1]).errors) >= 2
    /\ Cardinality(MissingIn(name, validated[2])) = 2
    /\ verdict = "False"
    /\ errors = <<"Missing required field: title">>

(***************************************************************************)
(* Properties of ValidationStats, checked under SpecStats.                 *)
(***************************************************************************)
\* the number of times error e was passed in the i-th update call, if that
\* call tallies its errors
Passed(i, e) ==
    IF ~updates[i].is_valid /\ updates[i].errors.t = "list"
      THEN Cardinality({k \in 1..Len(updates[i].errors.l) : updates[i].errors.l[k] = e})
      ELSE 0

ErrorStrings ==
    UNION {{a.l[k] : k \in 1..Len(a.l)} : a \in {b \in ErrorArgs : b.t = "list"}}

\* C20: after any sequence of update calls total_records = valid_records +
\* invalid_records = the number of calls; error_types holds, for each error
\* string, the number of times it was passed in calls with is_valid False,
\* and nothing else; get_summary does not raise, validity_rate is 0 when
\* total_records is 0 and otherwise lies between 0 and 100.
C20_StatsCountEveryUpdate ==
    /\ total_records = valid_records + invalid_records
    /\ total_records = Len(updates)
    /\ valid_records = Cardinality({i \in 1..Len(updates) : updates[i].is_valid})
    /\ \A e \in ErrorStrings :
          LET n == SumFn([i \in 1..Len(updates) |-> Passed(i, e)], 1..Len(updates))
          IN IF n = 0 THEN e \notin DOMAIN error_types
             ELSE e \in DOMAIN error_types /\ error_types[e] = n
    /\ DOMAIN error_types \subseteq ErrorStrings
    /\ Called(summary) =>
          /\ summary.err = "none"
          /\ summary.val.total_records = 0 => summary.val.validity_rate = Zero
          /\ summary.val.validity_rate[2] > 0
          /\ 0 <= summary.val.validity_rate[1]
          /\ summary.val.validity_rate[1] <= 100 * summary.val.validity_rate[2]
          /\ summary.val.total_records > 0 =>
                summary.val.validity_rate[1] * summary.val.total_records
                  = 100 * summary.val.valid_records * summary.val.validity_rate[2]

\* a valid call passing an error and an invalid call passing one error
\* twice were made, and the summary taken: the error counts 2, the rate is 50
C20_Witness ==
    /\ updates = <<[is_valid |-> TRUE, errors |-> List(<<"Invalid email format">>)],
                   [is_valid |-> FALSE,
                    errors |-> List(<<"Invalid email format", "Invalid email format">>)]>>
    /\ DOMAIN error_types = {"Invalid email format"}
    /\ error_types["Invalid email format"] = 2
    /\ Called(summary)
    /\ summary.val.total_records = 2
    /\ summary.val.validity_rate = <<50, 1>>

====
